---- MODULE Spec2Model ----
(***************************************************************************)
(* A model of spaGO's computation graph composite operators (package ag),  *)
(* and of the Model / Processor composition used by the BERT heads and by  *)
(* the stacked embeddings model.                                           *)
(*                                                                         *)
(* A Graph is an append-only sequence of Nodes.  A Node is identified by   *)
(* the Graph that owns it and by its position in that Graph.  Values are   *)
(* vectors of exact rationals (a scalar is a vector of length one).        *)
(***************************************************************************)
EXTENDS Integers, Sequences, FiniteSets, TLC

\* ------------------------------------------------------------------ bounds
MaxInputs == 2      \* input leaves the caller binds before it evaluates
MaxOperands == 3    \* longest operand list handed to Sum, Mean, Concat
MaxWords == 2       \* longest input sequence handed to a Processor
MaxEncoders == 2    \* most words encoders of a stacked embeddings Model

\* Two Contexts, each with its own Graph, are alive at the same time.
Graphs == {1, 2}

\* The Graph the caller of the ag operators evaluates on.
AgGraphs == {1}

VARIABLES
  pc,       \* pc[g]: the position of the caller that evaluates on Graph g
  graphs,   \* graphs[g]: the node list of Graph g, in creation order
  last,     \* the last call: its operation, inputs, outcome and the Graphs before it
  model,    \* the Model tree the program has loaded, with its parameters
  procs,    \* procs[g]: the Processor tree built with the Context of Graph g
  halted    \* TRUE once log.Fatal has ended the process

vars == <<pc, graphs, last, model, procs, halted>>

\* ------------------------------------------------------- exact rationals
RECURSIVE GCD(_, _)
GCD(a, b) == IF b = 0 THEN a ELSE GCD(b, a % b)

Abs(n) == IF n < 0 THEN -n ELSE n

\* The rational n/d (d # 0) in lowest terms with a positive denominator.
Rat(n, d) ==
  LET k == GCD(Abs(n), Abs(d))
      s == IF d < 0 THEN -1 ELSE 1
  IN  <<(s * n) \div k, (s * d) \div k>>

RInt(n) == <<n, 1>>
RAdd(p, q) == Rat(p[1] * q[2] + q[1] * p[2], p[2] * q[2])
RMul(p, q) == Rat(p[1] * q[1], p[2] * q[2])
RDiv(p, q) == Rat(p[1] * q[2], p[2] * q[1])
RPos(p) == p[1] > 0
RNeg(p) == p[1] < 0

\* --------------------------------------------------------- Graph and Node
Ref(g, i) == [g |-> g, i |-> i]
NodeAt(G, r) == G[r.g][r.i]
Val(G, r) == NodeAt(G, r).val
IsScalar(v) == Len(v) = 1
Refs(G, g) == {Ref(g, i) : i \in 1..Len(G[g])}
SeqsOf(S, lo, hi) == UNION {[1..k -> S] : k \in lo..hi}

\* The lists of exactly k Nodes of Graph g, each Node created no earlier than
\* the one listed before it and no earlier than Node lo (a Node may repeat).
RECURSIVE ListsOf(_, _, _, _)
ListsOf(G, g, lo, k) ==
  IF k = 0 THEN {<<>>}
  ELSE UNION {{<<Ref(g, i)>> \o t : t \in ListsOf(G, g, i, k - 1)} : i \in lo..Len(G[g])}

\* The operand lists a caller hands to Sum and Mean: none to MaxOperands Nodes.
OperandLists(G, g) == UNION {ListsOf(G, g, 1, k) : k \in 0..MaxOperands}

\* The outcome of a call on the Graphs G: the Graphs after it, the returned
\* Node, "ok" or "panic", and the number of primitives that completed.
Ok(G, out, k) == [G |-> G, out |-> out, st |-> "ok", prims |-> k]
Panic(G, k) == [G |-> G, out |-> Ref(0, 0), st |-> "panic", prims |-> k]

\* A new Node is appended to Graph g and returned.
NewNode(G, g, op, args, val) ==
  Ok([G EXCEPT ![g] = Append(@, [op |-> op, args |-> args, val |-> val])],
     Ref(g, Len(G[g]) + 1), 1)

Constant(G, g, v) == NewNode(G, g, "Constant", <<>>, <<RInt(v)>>)

NewVariable(G, g, v) == NewNode(G, g, "Variable", <<>>, v)

Add(G, g, a, b) ==
  LET x == Val(G, a)
      y == Val(G, b)
  IN  IF Len(x) # Len(y) THEN Panic(G, 0)
      ELSE NewNode(G, g, "Add", <<a, b>>, [i \in 1..Len(x) |-> RAdd(x[i], y[i])])

DivScalar(G, g, a, c) ==
  LET x == Val(G, a)
      y == Val(G, c)
  IN  IF ~IsScalar(y) THEN Panic(G, 0)
      ELSE NewNode(G, g, "DivScalar", <<a, c>>, [i \in 1..Len(x) |-> RDiv(x[i], y[1])])

AddScalar(G, g, a, c) ==
  LET x == Val(G, a)
      y == Val(G, c)
  IN  IF ~IsScalar(y) THEN Panic(G, 0)
      ELSE NewNode(G, g, "AddScalar", <<a, c>>, [i \in 1..Len(x) |-> RAdd(x[i], y[1])])

\* ELU(x, alpha) is x for x > 0 and alpha * (exp(x) - 1) otherwise; exp(x) is
\* taken as the rational 1 / (1 - x) for x <= 0, which like exp is 1 at 0,
\* increasing, and inside (0, 1) below 0.
ELUVal(x, alpha) ==
  IF RPos(x) THEN x
  ELSE RMul(alpha, RAdd(RDiv(RInt(1), RAdd(RInt(1), RMul(RInt(-1), x))), RInt(-1)))

ELU(G, g, a, c) ==
  LET x == Val(G, a)
      y == Val(G, c)
  IN  IF ~IsScalar(y) THEN Panic(G, 0)
      ELSE NewNode(G, g, "ELU", <<a, c>>, [i \in 1..Len(x) |-> ELUVal(x[i], y[1])])

RECURSIVE Flatten(_)
Flatten(vs) == IF Len(vs) = 0 THEN <<>> ELSE Head(vs) \o Flatten(Tail(vs))

Concat(G, g, xs) ==
  NewNode(G, g, "Concat", xs, Flatten([i \in 1..Len(xs) |-> Val(G, xs[i])]))

\* ----------------------------------------------------- composite operators
\* g.AddScalar(g.ELU(x, g.Constant(1.0)), g.Constant(1.0)): Go evaluates the
\* arguments left to right, so Constant, ELU, Constant, AddScalar.
PositiveELU(G, g, x) ==
  LET c1 == Constant(G, g, 1)
      e  == ELU(c1.G, g, x, c1.out)
      c2 == Constant(e.G, g, 1)
      r  == AddScalar(c2.G, g, e.out, c2.out)
  IN  IF e.st # "ok" THEN Panic(e.G, c1.prims)
      ELSE IF r.st # "ok" THEN Panic(r.G, c1.prims + e.prims + c2.prims)
      ELSE Ok(r.G, r.out, c1.prims + e.prims + c2.prims + r.prims)

\* for i := 1; i < len(xs); i++ { sumVector = g.Add(sumVector, xs[i]) }
\* (position i of the Go slice is position i + 1 of the sequence xs).
RECURSIVE SumLoop(_, _, _, _, _, _)
SumLoop(G, g, sumVector, i, xs, k) ==
  IF ~(i < Len(xs)) THEN Ok(G, sumVector, k)
  ELSE LET r == Add(G, g, sumVector, xs[i + 1])
       IN  IF r.st # "ok" THEN Panic(r.G, k)
           ELSE SumLoop(r.G, g, r.out, i + 1, xs, k + r.prims)

\* A Sum that starts its loop at position 0 and so adds xs[0] to itself.
Sum_LoopFromZero(G, g, xs) ==
  IF Len(xs) = 0 THEN Panic(G, 0)
  ELSE SumLoop(G, g, xs[1], 0, xs, 0)

\* A Sum that answers an empty operand list with a zero Node.
Sum_ZeroOnEmpty(G, g, xs) ==
  IF Len(xs) = 0 THEN Constant(G, g, 0)
  ELSE SumLoop(G, g, xs[1], 1, xs, 0)

\* xs[0] of an empty slice is an index out of range: a run-time panic.
Sum(G, g, xs) ==
  IF Len(xs) = 0 THEN Panic(G, 0)
  ELSE SumLoop(G, g, xs[1], 1, xs, 0)

RECURSIVE MeanLoop(_, _, _, _, _, _)
MeanLoop(G, g, sumVector, i, xs, k) ==
  IF ~(i < Len(xs)) THEN Ok(G, sumVector, k)
  ELSE LET r == Add(G, g, sumVector, xs[i + 1])
       IN  IF r.st # "ok" THEN Panic(r.G, k)
           ELSE MeanLoop(r.G, g, r.out, i + 1, xs, k + r.prims)

\* A division whose Constant is created on another Graph than the sum's.
MeanDiv_OtherGraph(s, g, n) ==
  IF s.st # "ok" THEN s
  ELSE LET h == CHOOSE o \in Graphs : o # g
           c == Constant(s.G, h, n)
           d == DivScalar(c.G, g, s.out, c.out)
       IN  IF d.st # "ok" THEN Panic(d.G, s.prims + c.prims)
           ELSE Ok(d.G, d.out, s.prims + c.prims + d.prims)

\* The sum of Mean's loop divided by the Constant n.
MeanDiv(s, g, n) ==
  IF s.st # "ok" THEN s
  ELSE LET c == Constant(s.G, g, n)
           d == DivScalar(c.G, g, s.out, c.out)
       IN  IF d.st # "ok" THEN Panic(d.G, s.prims + c.prims)
           ELSE Ok(d.G, d.out, s.prims + c.prims + d.prims)

\* A Mean that divides by one more than the number of operands.
Mean_WrongCount(G, g, xs) ==
  IF Len(xs) = 0 THEN Panic(G, 0)
  ELSE MeanDiv(MeanLoop(G, g, xs[1], 1, xs, 0), g, Len(xs) + 1)

Mean(G, g, xs) ==
  IF Len(xs) = 0 THEN Panic(G, 0)
  ELSE MeanDiv(MeanLoop(G, g, xs[1], 1, xs, 0), g, Len(xs))

\* ------------------------------------------------------------------ Models
NoModel == [kind |-> "none", name |-> "none", children |-> <<>>]
NoProc ==
  [kind |-> "none", model |-> NoModel, mode |-> "none", graph |-> 0, children |-> <<>>]

Words == {"a", "b"}

\* The Mode of the Context opened on Graph g.
Mode(g) == IF g = 1 THEN "Training" ELSE "Inference"
Context(g) == [graph |-> g, mode |-> Mode(g)]

\* linear.New(in, out) with its weights w (one row per output) and bias b loaded.
Linear(name, w, b) ==
  [kind |-> "linear", name |-> name, children |-> <<>>, w |-> w, b |-> b]

Activation(name, act) ==
  [kind |-> "activation", name |-> name, children |-> <<>>, act |-> act]

Stack(name, layers) == [kind |-> "stack", name |-> name, children |-> layers]

\* A sub-model whose Processor encodes words: one vector of size 1 per word.
WordsEncoder(name, table) ==
  [kind |-> "wordsencoder", name |-> name, children |-> <<>>, table |-> table]

\* A head of the BERT Model that no operation of this model evaluates.
Unevaluated(kind, name) == [kind |-> kind, name |-> name, children |-> <<>>]

NewDiscriminator(name, hiddenActivation, outputActivation) ==
  [kind |-> "discriminator", name |-> name,
   children |-> <<Stack(name \o ".Model",
                    <<Linear(name \o ".0", <<<<2>>>>, <<0>>),
                      Activation(name \o ".1", hiddenActivation),
                      Linear(name \o ".2", <<<<-1>>>>, <<0>>),
                      Activation(name \o ".3", outputActivation)>>)>>]

\* linear.New(config.InputSize, 2): two rows of weights, one per logit.
NewSpanClassifier(name) ==
  [kind |-> "spanclassifier", name |-> name,
   children |-> <<Linear(name \o ".Model", <<<<1>>, <<-1>>>>, <<0, 1>>)>>]

\* The eight sub-models of the BERT Model, in the order of its fields.
NewDefaultBERT ==
  [kind |-> "bert", name |-> "bert",
   children |->
     <<[kind |-> "bert.embeddings", name |-> "Embeddings", children |-> <<>>,
        table |-> [w \in Words |-> IF w = "a" THEN 1 ELSE -2]],
       Unevaluated("bert.encoder", "Encoder"),
       Unevaluated("bert.predictor", "Predictor"),
       NewDiscriminator("Discriminator", "GELU", "Identity"),
       Unevaluated("bert.pooler", "Pooler"),
       Linear("SeqRelationship", <<<<1>>, <<1>>>>, <<0, 0>>),
       NewSpanClassifier("SpanClassifier"),
       Unevaluated("bert.classifier", "Classifier")>>]

\* The sub-models configured as words encoders: "enc" encodes words, "lin" is
\* a linear layer, whose Processor has no Encode.
EncoderAt(i, e) ==
  IF e = "enc"
  THEN WordsEncoder("WordsEncoders." \o ToString(i),
                    [w \in Words |-> IF w = "a" THEN i ELSE -(i + 1)])
  ELSE Linear("WordsEncoders." \o ToString(i), <<<<1>>>>, <<0>>)

\* A stacked embeddings Model: its words encoders, then its projection layer
\* from one input per encoder to one output.
StackedEmbeddings(es) ==
  [kind |-> "stackedembeddings", name |-> "stackedembeddings",
   children |-> [i \in 1..Len(es) |-> EncoderAt(i, es[i])]
                \o <<Linear("ProjectionLayer", <<[c \in 1..Len(es) |-> c + 1]>>, <<1>>)>>]

WordsEncoders(m) == SubSeq(m.children, 1, Len(m.children) - 1)
ProjectionLayer(m) == m.children[Len(m.children)]

RootModels ==
  {NewDefaultBERT} \cup
  {StackedEmbeddings(es) : es \in SeqsOf({"enc", "lin"}, 1, MaxEncoders)}

\* -------------------------------------------------------------- Processors
\* The outcome of a construction: "ok" with the Processor, or "fatal".
Built(p) == [st |-> "ok", proc |-> p]
Fatal == [st |-> "fatal", proc |-> NoProc]

BaseProcessor(m, ctx, children) ==
  [kind |-> m.kind, model |-> m, mode |-> ctx.mode, graph |-> ctx.graph,
   children |-> children]

\* A Processor that embeds the Processor of its only child: its Graph and
\* its Mode are the embedded Processor's.
Embedding(m, child) ==
  [kind |-> m.kind, model |-> m, mode |-> child.mode, graph |-> child.graph,
   children |-> <<child>>]

\* The interface WordsEncoderProcessor: the Processors that have Encode.
IsWordsEncoderProcessor(p) == p.kind \in {"wordsencoder", "bert", "stackedembeddings"}

RECURSIVE NewProc(_, _)

AllBuilt(rs) == \A i \in 1..Len(rs) : rs[i].st = "ok"
ProcsOf(rs) == [i \in 1..Len(rs) |-> rs[i].proc]

\* A BERT NewProc that hands the Context's Graph but not its Mode to the heads.
bert_NewProc_DefaultMode(m, ctx) ==
  LET rs == [i \in 1..Len(m.children) |->
               NewProc(m.children[i], [ctx EXCEPT !.mode = "Training"])]
  IN  IF AllBuilt(rs) THEN Built(BaseProcessor(m, ctx, ProcsOf(rs))) ELSE Fatal

bert_NewProc(m, ctx) ==
  LET rs == [i \in 1..Len(m.children) |-> NewProc(m.children[i], ctx)]
  IN  IF AllBuilt(rs) THEN Built(BaseProcessor(m, ctx, ProcsOf(rs))) ELSE Fatal

\* A NewProc that keeps whatever Processor a words encoder yields.
stackedembeddings_NewProc_Unchecked(m, ctx) ==
  LET rs == [i \in 1..Len(m.children) |-> NewProc(m.children[i], ctx)]
  IN  IF AllBuilt(rs) THEN Built(BaseProcessor(m, ctx, ProcsOf(rs))) ELSE Fatal

\* A NewProc whose projection layer is always built on the Graph of Context 1.
stackedembeddings_NewProc_SharedGraph(m, ctx) ==
  LET es == [i \in 1..Len(WordsEncoders(m)) |-> NewProc(WordsEncoders(m)[i], ctx)]
      pl == NewProc(ProjectionLayer(m), Context(1))
  IN  IF \E i \in 1..Len(es) :
           es[i].st # "ok" \/ ~IsWordsEncoderProcessor(es[i].proc)
      THEN Fatal
      ELSE Built(BaseProcessor(m, ctx, ProcsOf(es) \o <<pl.proc>>))

\* log.Fatal at the first words encoder whose Processor has no Encode.
stackedembeddings_NewProc(m, ctx) ==
  LET es == [i \in 1..Len(WordsEncoders(m)) |-> NewProc(WordsEncoders(m)[i], ctx)]
      pl == NewProc(ProjectionLayer(m), ctx)
  IN  IF \E i \in 1..Len(es) :
           es[i].st # "ok" \/ ~IsWordsEncoderProcessor(es[i].proc)
      THEN Fatal
      ELSE Built(BaseProcessor(m, ctx, ProcsOf(es) \o <<pl.proc>>))

Discriminator_NewProc(m, ctx) ==
  LET r == NewProc(m.children[1], ctx)
  IN  IF r.st = "ok" THEN Built(Embedding(m, r.proc)) ELSE Fatal

SpanClassifier_NewProc(m, ctx) ==
  LET r == NewProc(m.children[1], ctx)
  IN  IF r.st = "ok" THEN Built(Embedding(m, r.proc)) ELSE Fatal

stack_NewProc(m, ctx) ==
  LET rs == [i \in 1..Len(m.children) |-> NewProc(m.children[i], ctx)]
  IN  IF AllBuilt(rs) THEN Built(BaseProcessor(m, ctx, ProcsOf(rs))) ELSE Fatal

NewProc(m, ctx) ==
  CASE m.kind = "bert" -> bert_NewProc(m, ctx)
    [] m.kind = "stackedembeddings" -> stackedembeddings_NewProc(m, ctx)
    [] m.kind = "discriminator" -> Discriminator_NewProc(m, ctx)
    [] m.kind = "spanclassifier" -> SpanClassifier_NewProc(m, ctx)
    [] m.kind = "stack" -> stack_NewProc(m, ctx)
    [] OTHER -> Built(BaseProcessor(m, ctx, <<>>))

\* -------------------------------------------------------------- evaluation
\* The outcome of a call that returns a list of Nodes.
MOk(G, outs) == [G |-> G, out |-> outs, st |-> "ok"]
MPanic(G) == [G |-> G, out |-> <<>>, st |-> "panic"]

MkNode(op, args, val) == [op |-> op, args |-> args, val |-> val]
AppendAll(G, g, nodes) == [G EXCEPT ![g] = @ \o nodes]
NewRefs(G, g, n) == [i \in 1..n |-> Ref(g, Len(G[g]) + i)]
Least(S) == CHOOSE i \in S : \A j \in S : i <= j

\* One new Node per input on Graph g; the inputs in bad make the layer panic,
\* after the Nodes of the inputs before the first of them have been appended.
PerInput(G, g, nodes, bad) ==
  IF bad = {} THEN MOk(AppendAll(G, g, nodes), NewRefs(G, g, Len(nodes)))
  ELSE MPanic(AppendAll(G, g, SubSeq(nodes, 1, Least(bad) - 1)))

RECURSIVE Dot(_, _, _)
Dot(row, x, c) ==
  IF c > Len(row) THEN RInt(0)
  ELSE RAdd(RMul(RInt(row[c]), x[c]), Dot(row, x, c + 1))

\* y = W x + b
AffineVal(w, b, x) == [r \in 1..Len(w) |-> RAdd(RInt(b[r]), Dot(w[r], x, 1))]

linear_Forward(G, p, xs) ==
  LET w == p.model.w
      b == p.model.b
      bad == {i \in 1..Len(xs) : Len(Val(G, xs[i])) # Len(w[1])}
  IN  PerInput(G, p.graph,
               [i \in 1..Len(xs) |->
                  MkNode("Affine", <<xs[i]>>,
                         IF i \in bad THEN <<>> ELSE AffineVal(w, b, Val(G, xs[i])))],
               bad)

RAbs(p) == <<Abs(p[1]), p[2]>>

\* GELU(x) = x * Phi(x); Phi is taken as the rational 1/2 + x / (2 (1 + |x|)),
\* which like the normal distribution function is 1/2 at 0, increasing, and
\* inside (0, 1).
GELUVal(x) ==
  RMul(x, RAdd(<<1, 2>>, RDiv(x, RMul(RInt(2), RAdd(RInt(1), RAbs(x))))))

ActVal(act, x) == IF act = "GELU" THEN GELUVal(x) ELSE x

activation_Forward(G, p, xs) ==
  PerInput(G, p.graph,
           [i \in 1..Len(xs) |->
              MkNode(p.model.act, <<xs[i]>>,
                     [c \in 1..Len(Val(G, xs[i])) |-> ActVal(p.model.act, Val(G, xs[i])[c])])],
           {})

RECURSIVE VecSum(_, _, _)
VecSum(G, xs, i) ==
  IF i > Len(xs) THEN RInt(0) ELSE RAdd(Val(G, xs[i])[1], VecSum(G, xs, i + 1))

\* The transformer layers: one output per input, each a function of every
\* input (here the input plus the sum of the inputs' first components).
Encoder_Forward(G, p, xs) ==
  PerInput(G, p.graph,
           [i \in 1..Len(xs) |->
              MkNode("Encoder", xs,
                     [c \in 1..Len(Val(G, xs[i])) |->
                        RAdd(Val(G, xs[i])[c], VecSum(G, xs, 1))])],
           {i \in 1..Len(xs) : Len(Val(G, xs[i])) = 0})

RECURSIVE Forward(_, _, _)

\* Each layer consumes the outputs of the layer before it.
RECURSIVE StackLoop(_, _, _, _)
StackLoop(G, p, i, xs) ==
  IF i > Len(p.children) THEN MOk(G, xs)
  ELSE LET r == Forward(G, p.children[i], xs)
       IN  IF r.st # "ok" THEN r ELSE StackLoop(r.G, p, i + 1, r.out)

stack_Forward(G, p, xs) == StackLoop(G, p, 1, xs)

encoders(p) == SubSeq(p.children, 1, Len(p.children) - 1)
projectionLayer(p) == p.children[Len(p.children)]

\* A Forward that evaluates the projection layer on its inputs.
stackedembeddings_Forward_Projects(G, p, xs) ==
  linear_Forward(G, projectionLayer(p), xs)

\* panic("stackedembeddings: Forward() not implemented. Use Encode() instead.")
stackedembeddings_Forward(G, p, xs) == MPanic(G)

\* panic("bert: method not implemented")
bert_Forward(G, p, xs) == MPanic(G)

Forward(G, p, xs) ==
  CASE p.kind = "linear" -> linear_Forward(G, p, xs)
    [] p.kind = "activation" -> activation_Forward(G, p, xs)
    [] p.kind = "stack" -> stack_Forward(G, p, xs)
    [] p.kind = "bert.encoder" -> Encoder_Forward(G, p, xs)
    [] p.kind = "discriminator" -> stack_Forward(G, p.children[1], xs)
    [] p.kind = "spanclassifier" -> linear_Forward(G, p.children[1], xs)
    [] p.kind = "stackedembeddings" -> stackedembeddings_Forward(G, p, xs)
    [] p.kind = "bert" -> bert_Forward(G, p, xs)
    [] OTHER -> MPanic(G)

\* One leaf per word, holding the word's row of the encoder's table.
wordsencoder_Encode(G, p, words) ==
  PerInput(G, p.graph,
           [i \in 1..Len(words) |->
              MkNode("Embed", <<>>, <<RInt(p.model.table[words[i]])>>)],
           {})

\* One leaf per token, holding the token's row plus its position.
Embeddings_Encode(G, p, tokens) ==
  PerInput(G, p.graph,
           [i \in 1..Len(tokens) |->
              MkNode("Embed", <<>>, <<RInt(p.model.table[tokens[i]] + i)>>)],
           {})

bert_Encode(G, p, tokens) ==
  LET tokensEncoding == Embeddings_Encode(G, p.children[1], tokens)
  IN  Forward(tokensEncoding.G, p.children[2], tokensEncoding.out)

RECURSIVE Encode(_, _, _)

\* for _, encoder := range p.encoders: the encodings of encoder j are appended
\* to the list of each word; an encoding past the last word is an index out
\* of range.
RECURSIVE EncodeLoop(_, _, _, _, _)
EncodeLoop(G, p, j, words, encodingsPerWord) ==
  IF j > Len(encoders(p)) THEN [G |-> G, out |-> encodingsPerWord, st |-> "ok"]
  ELSE LET r == Encode(G, encoders(p)[j], words)
       IN  IF r.st # "ok" \/ Len(r.out) > Len(words) THEN MPanic(r.G)
           ELSE EncodeLoop(r.G, p, j + 1, words,
                           [w \in 1..Len(words) |->
                              IF w <= Len(r.out)
                              THEN Append(encodingsPerWord[w], r.out[w])
                              ELSE encodingsPerWord[w]])

\* for wordIndex, encoding := range encodingsPerWord
RECURSIVE ConcatLoop(_, _, _, _, _)
ConcatLoop(G, p, encodingsPerWord, w, intermediateEncoding) ==
  IF w > Len(encodingsPerWord) THEN MOk(G, intermediateEncoding)
  ELSE IF Len(encodingsPerWord[w]) = 1
       THEN ConcatLoop(G, p, encodingsPerWord, w + 1,
                       Append(intermediateEncoding, encodingsPerWord[w][1]))
       ELSE LET c == Concat(G, p.graph, encodingsPerWord[w])
            IN  ConcatLoop(c.G, p, encodingsPerWord, w + 1,
                           Append(intermediateEncoding, c.out))

\* An Encode without the single-encoder shortcut: it always concatenates.
RECURSIVE ConcatLoop_Always(_, _, _, _, _)
ConcatLoop_Always(G, p, encodingsPerWord, w, intermediateEncoding) ==
  IF w > Len(encodingsPerWord) THEN MOk(G, intermediateEncoding)
  ELSE LET c == Concat(G, p.graph, encodingsPerWord[w])
       IN  ConcatLoop_Always(c.G, p, encodingsPerWord, w + 1,
                             Append(intermediateEncoding, c.out))

stackedembeddings_Encode_AlwaysConcat(G, p, words) ==
  LET e == EncodeLoop(G, p, 1, words, [w \in 1..Len(words) |-> <<>>])
  IN  IF e.st # "ok" THEN e
      ELSE LET i == ConcatLoop_Always(e.G, p, e.out, 1, <<>>)
           IN  Forward(i.G, projectionLayer(p), i.out)

stackedembeddings_Encode(G, p, words) ==
  LET e == EncodeLoop(G, p, 1, words, [w \in 1..Len(words) |-> <<>>])
  IN  IF e.st # "ok" THEN e
      ELSE LET i == ConcatLoop(e.G, p, e.out, 1, <<>>)
           IN  Forward(i.G, projectionLayer(p), i.out)

Encode(G, p, words) ==
  CASE p.kind = "wordsencoder" -> wordsencoder_Encode(G, p, words)
    [] p.kind = "bert" -> bert_Encode(G, p, words)
    [] p.kind = "stackedembeddings" -> stackedembeddings_Encode(G, p, words)
    [] OTHER -> MPanic(G)

\* nn.SeparateVec: one Node per component of y, in index order.
SeparateVec(G, g, y) ==
  PerInput(G, g,
           [i \in 1..Len(Val(G, y)) |->
              MkNode("AtVec[" \o ToString(i - 1) \o "]", <<y>>, <<Val(G, y)[i]>>)],
           {})

\* for _, y := range p.Forward(xs...): split[0] and split[1] of a split
\* shorter than two are an index out of range.
RECURSIVE ClassifyLoop(_, _, _, _, _, _)
ClassifyLoop(G, g, ys, i, startLogits, endLogits) ==
  IF i > Len(ys)
  THEN [G |-> G, out |-> startLogits, out2 |-> endLogits, st |-> "ok"]
  ELSE LET split == SeparateVec(G, g, ys[i])
       IN  IF Len(split.out) < 2
           THEN [G |-> split.G, out |-> <<>>, out2 |-> <<>>, st |-> "panic"]
           ELSE ClassifyLoop(split.G, g, ys, i + 1,
                             Append(startLogits, split.out[1]),
                             Append(endLogits, split.out[2]))

\* A Classify that takes the start logit from index 1 and the end from index 0.
RECURSIVE ClassifyLoop_Swapped(_, _, _, _, _, _)
ClassifyLoop_Swapped(G, g, ys, i, startLogits, endLogits) ==
  IF i > Len(ys)
  THEN [G |-> G, out |-> startLogits, out2 |-> endLogits, st |-> "ok"]
  ELSE LET split == SeparateVec(G, g, ys[i])
       IN  IF Len(split.out) < 2
           THEN [G |-> split.G, out |-> <<>>, out2 |-> <<>>, st |-> "panic"]
           ELSE ClassifyLoop_Swapped(split.G, g, ys, i + 1,
                                     Append(startLogits, split.out[2]),
                                     Append(endLogits, split.out[1]))

Classify_Swapped(G, p, xs) ==
  LET r == Forward(G, p, xs)
  IN  IF r.st # "ok" THEN [G |-> r.G, out |-> <<>>, out2 |-> <<>>, st |-> "panic"]
      ELSE ClassifyLoop_Swapped(r.G, p.graph, r.out, 1, <<>>, <<>>)

Classify(G, p, xs) ==
  LET r == Forward(G, p, xs)
  IN  IF r.st # "ok" THEN [G |-> r.G, out |-> <<>>, out2 |-> <<>>, st |-> "panic"]
      ELSE ClassifyLoop(r.G, p.graph, r.out, 1, <<>>, <<>>)

\* f64utils.Sign: -1, 0 or +1.
Sign(x) == IF RNeg(x) THEN -1 ELSE IF RPos(x) THEN 1 ELSE 0

\* math.Round: the nearest integer, halves away from zero.
Round(q) ==
  IF q[1] >= 0 THEN (2 * q[1] + q[2]) \div (2 * q[2])
  ELSE -((2 * (-q[1]) + q[2]) \div (2 * q[2]))

\* A Discriminate that halves the sign without adding one to it first.
Discriminate_NoShift(G, p, encoded) ==
  LET r == Forward(G, p, encoded)
  IN  IF r.st # "ok" \/ Len(r.out) > Len(encoded)
         \/ \E i \in 1..Len(r.out) : ~IsScalar(Val(r.G, r.out[i]))
      THEN [G |-> r.G, out |-> <<>>, ints |-> <<>>, st |-> "panic"]
      ELSE [G |-> r.G, out |-> r.out, st |-> "ok",
            ints |-> [i \in 1..Len(encoded) |->
                        IF i <= Len(r.out)
                        THEN Round(RDiv(RInt(Sign(Val(r.G, r.out[i])[1])), RInt(2)))
                        ELSE 0]]

\* ys[i] = int(math.Round(float64(f64utils.Sign(x.ScalarValue())+1.0) / 2.0))
Discriminate(G, p, encoded) ==
  LET r == Forward(G, p, encoded)
  IN  IF r.st # "ok" \/ Len(r.out) > Len(encoded)
         \/ \E i \in 1..Len(r.out) : ~IsScalar(Val(r.G, r.out[i]))
      THEN [G |-> r.G, out |-> <<>>, ints |-> <<>>, st |-> "panic"]
      ELSE [G |-> r.G, out |-> r.out, st |-> "ok",
            ints |-> [i \in 1..Len(encoded) |->
                        IF i <= Len(r.out)
                        THEN Round(RDiv(RInt(Sign(Val(r.G, r.out[i])[1]) + 1), RInt(2)))
                        ELSE 0]]

bert_Discriminate(G, p, encoded) == Discriminate(G, p.children[4], encoded)

\* ------------------------------------------------------------------ state
NoCall ==
  [op |-> "none", g |-> 0, xs |-> <<>>, st |-> "ok", out |-> <<>>,
   prims |-> 0, pre |-> [g \in Graphs |-> <<>>], ints |-> <<>>, out2 |-> <<>>]

\* The record of a call of operator op on Graph g with operands xs and outcome r.
OpCall(op, g, xs, r) ==
  [op |-> op, g |-> g, xs |-> xs, st |-> r.st,
   out |-> IF r.st = "ok" THEN <<r.out>> ELSE <<>>,
   prims |-> r.prims, pre |-> graphs, ints |-> <<>>, out2 |-> <<>>]

InitAg ==
  /\ pc = [g \in Graphs |-> "bind"]
  /\ graphs = [g \in Graphs |-> <<>>]
  /\ last = NoCall
  /\ model = NoModel
  /\ procs = [g \in Graphs |-> NoProc]
  /\ halted = FALSE

\* The caller binds its inputs, makes a first call and then a second one.
After(p) == IF p = "bind" THEN "called" ELSE "done"

\* A call of an operator of Graph g: the Graphs become r.G whether the call
\* returned or panicked (the caller recovers from the panic).
CanCall(g) == ~halted /\ pc[g] \in {"bind", "called"}

DoOp(op, g, xs, r) ==
  /\ pc' = [pc EXCEPT ![g] = After(@)]
  /\ graphs' = r.G
  /\ last' = OpCall(op, g, xs, r)
  /\ UNCHANGED <<model, procs, halted>>

\* The input values a caller binds as leaves: a scalar and a vector.
InputVals == {<<RInt(2)>>, <<RInt(1), RInt(0)>>}

CallNewVariable ==
  \E g \in AgGraphs, v \in InputVals :
    LET r == NewVariable(graphs, g, v)
    IN  /\ ~halted
        /\ pc[g] = "bind"
        /\ Len(graphs[g]) < MaxInputs
        /\ graphs' = r.G
        /\ last' = OpCall("Variable", g, <<>>, r)
        /\ UNCHANGED <<pc, model, procs, halted>>

CallPositiveELU ==
  \E g \in AgGraphs : CanCall(g) /\ \E x \in Refs(graphs, g) :
    DoOp("PositiveELU", g, <<x>>, PositiveELU(graphs, g, x))

CallSum ==
  \E g \in AgGraphs : CanCall(g) /\ \E xs \in OperandLists(graphs, g) :
    DoOp("Sum", g, xs, Sum(graphs, g, xs))

CallMean ==
  \E g \in AgGraphs : CanCall(g) /\ \E xs \in OperandLists(graphs, g) :
    DoOp("Mean", g, xs, Mean(graphs, g, xs))

NextAg ==
  \/ CallNewVariable
  \/ CallPositiveELU
  \/ CallSum
  \/ CallMean

SpecAg == InitAg /\ [][NextAg]_vars

\* ------------------------------------------- Models, Contexts, Processors
\* The values of the Nodes a caller hands to a Processor: vectors of size 1.
EncodedVals == {<<RInt(-1)>>, <<RInt(0)>>, <<RInt(2)>>}

InitNN ==
  /\ pc = [g \in Graphs |-> "new"]
  /\ graphs = [g \in Graphs |-> <<>>]
  /\ last = NoCall
  /\ model \in RootModels
  /\ procs = [g \in Graphs |-> NoProc]
  /\ halted = FALSE

\* The record of a call on the Processor tree of Graph g with outcome r.
ProcCall(op, g, xs, r) ==
  [op |-> op, g |-> g, xs |-> xs, st |-> r.st, out |-> r.out, prims |-> 0,
   pre |-> graphs, ints |-> <<>>, out2 |-> <<>>]

\* The Nodes of Graph g, in creation order.
AllRefs(G, g) == [i \in 1..Len(G[g]) |-> Ref(g, i)]

\* model.NewProc(ctx) with the Context of Graph g: the caller gets the
\* Processor tree, or log.Fatal ends the process.
CallNewProc ==
  \E g \in Graphs :
    LET r == NewProc(model, Context(g))
    IN  /\ ~halted
        /\ pc[g] = "new"
        /\ IF r.st = "ok"
           THEN /\ procs' = [procs EXCEPT ![g] = r.proc]
                /\ pc' = [pc EXCEPT ![g] = "ready"]
                /\ UNCHANGED halted
           ELSE /\ halted' = TRUE
                /\ UNCHANGED <<procs, pc>>
        /\ last' = [NoCall EXCEPT !.op = "NewProc", !.g = g, !.st = r.st, !.pre = graphs]
        /\ UNCHANGED <<graphs, model>>

RECURSIVE BindLoop(_, _, _, _)
BindLoop(G, g, vals, i) ==
  IF i > Len(vals) THEN G
  ELSE BindLoop(NewVariable(G, g, vals[i]).G, g, vals, i + 1)

\* The caller binds the Nodes it is going to hand to its Processor.
CallBind ==
  \E g \in Graphs : \E vals \in SeqsOf(EncodedVals, 0, MaxWords) :
    LET G == BindLoop(graphs, g, vals, 1)
    IN  /\ ~halted
        /\ pc[g] = "ready"
        /\ graphs' = G
        /\ pc' = [pc EXCEPT ![g] = "bound"]
        /\ last' = ProcCall("Bind", g, vals, MOk(G, NewRefs(graphs, g, Len(vals))))
        /\ UNCHANGED <<model, procs, halted>>

CallEncode ==
  \E g \in Graphs : \E words \in SeqsOf(Words, 0, MaxWords) :
    /\ ~halted
    /\ pc[g] = "ready"
    /\ IsWordsEncoderProcessor(procs[g])
    /\ LET r == Encode(graphs, procs[g], words)
       IN  /\ graphs' = r.G
           /\ last' = ProcCall("Encode", g, words, r)
    /\ pc' = [pc EXCEPT ![g] = "done"]
    /\ UNCHANGED <<model, procs, halted>>

CallForward ==
  \E g \in Graphs :
    /\ ~halted
    /\ pc[g] \in {"ready", "bound"}
    /\ LET r == Forward(graphs, procs[g], AllRefs(graphs, g))
       IN  /\ graphs' = r.G
           /\ last' = ProcCall("Forward", g, AllRefs(graphs, g), r)
    /\ pc' = [pc EXCEPT ![g] = "done"]
    /\ UNCHANGED <<model, procs, halted>>

CallClassify ==
  \E g \in Graphs :
    /\ ~halted
    /\ pc[g] = "bound"
    /\ procs[g].kind = "bert"
    /\ LET r == Classify(graphs, procs[g].children[7], AllRefs(graphs, g))
       IN  /\ graphs' = r.G
           /\ last' = [ProcCall("Classify", g, AllRefs(graphs, g), r)
                         EXCEPT !.out2 = r.out2]
    /\ pc' = [pc EXCEPT ![g] = "done"]
    /\ UNCHANGED <<model, procs, halted>>

CallDiscriminate ==
  \E g \in Graphs :
    /\ ~halted
    /\ pc[g] = "bound"
    /\ procs[g].kind = "bert"
    /\ LET r == bert_Discriminate(graphs, procs[g], AllRefs(graphs, g))
       IN  /\ graphs' = r.G
           /\ last' = [ProcCall("Discriminate", g, AllRefs(graphs, g), r)
                         EXCEPT !.ints = r.ints]
    /\ pc' = [pc EXCEPT ![g] = "done"]
    /\ UNCHANGED <<model, procs, halted>>

NextNN ==
  \/ CallNewProc
  \/ CallBind
  \/ CallEncode
  \/ CallForward
  \/ CallClassify
  \/ CallDiscriminate

SpecNN == InitNN /\ [][NextNN]_vars

\* ------------------------------------------------------- claims (package ag)
\* The Nodes Graph g holds now that it did not hold before the last call.
Appended(g) == SubSeq(graphs[g], Len(last.pre[g]) + 1, Len(graphs[g]))

OpsOf(nodes) == [i \in 1..Len(nodes) |-> nodes[i].op]

\* Every Node of before is still at its position in now, unchanged.
IsPrefix(before, now) ==
  /\ Len(before) <= Len(now)
  /\ SubSeq(now, 1, Len(before)) = before

\* C1: Sum and Mean called with an empty operand list panic at that call:
\* they return no Node and they append no Node to any Graph.
C1_EmptyOperandsPanic ==
  (last.op \in {"Sum", "Mean"} /\ last.xs = <<>>) =>
    /\ last.st = "panic"
    /\ last.out = <<>>
    /\ graphs = last.pre

C1_Witness ==
  /\ last.op = "Sum"
  /\ last.xs = <<>>
  /\ Len(last.pre[last.g]) > 0

\* C2: for a non-empty operand list xs, Mean(xs) returns exactly when Sum(xs)
\* does; Mean builds the very Nodes Sum builds (the same left-to-right fold
\* with Add), then one Constant holding len(xs) and one DivScalar of the sum
\* by that Constant, whose value is the value of Sum(xs) divided by len(xs).
C2_MeanIsSumDividedByN ==
  (last.op = "Mean" /\ last.xs # <<>>) =>
    LET s == Sum(last.pre, last.g, last.xs)
        n == Len(last.xs)
    IN  /\ (last.st = "ok") <=> (s.st = "ok")
        /\ last.st = "ok" =>
             LET m == NodeAt(graphs, last.out[1])
                 v == Val(s.G, s.out)
             IN  /\ IsPrefix(s.G[last.g], graphs[last.g])
                 /\ Len(graphs[last.g]) = Len(s.G[last.g]) + 2
                 /\ m.op = "DivScalar"
                 /\ m.args[1] = s.out
                 /\ NodeAt(graphs, m.args[2]).op = "Constant"
                 /\ Val(graphs, m.args[2]) = <<RInt(n)>>
                 /\ m.val = [i \in 1..Len(v) |-> RDiv(v[i], RInt(n))]

\* Mean of three operands that are not all the same Node.
C2_Witness ==
  /\ last.op = "Mean"
  /\ last.st = "ok"
  /\ Len(last.xs) = 3
  /\ last.xs[1] # last.xs[3]

\* The primitives Sum, Mean and PositiveELU invoke on n operands, in order.
Primitives(op, n) ==
  CASE op = "Sum" -> [i \in 1..(n - 1) |-> "Add"]
    [] op = "Mean" -> [i \in 1..(n - 1) |-> "Add"] \o <<"Constant", "DivScalar">>
    [] op = "PositiveELU" -> <<"Constant", "ELU", "Constant", "AddScalar">>
    [] op = "Variable" -> <<"Variable">>
    [] OTHER -> <<>>

\* C10: a call of a composite operator appends to its Graph one Node per
\* primitive it invokes, in the order it invokes them, and nothing else (Sum
\* over n >= 1 operands appends n - 1 Add Nodes); a call that panics appends
\* the Nodes of the primitives completed before the panic; no call changes a
\* Node that existed before it, in any Graph.
C10_OneNodePerPrimitive ==
  last.op \in {"Variable", "Sum", "Mean", "PositiveELU"} =>
    /\ \A g \in Graphs : IsPrefix(last.pre[g], graphs[g])
    /\ \A g \in Graphs \ {last.g} : graphs[g] = last.pre[g]
    /\ Len(Appended(last.g)) = last.prims
    /\ last.st = "ok" =>
         OpsOf(Appended(last.g)) = Primitives(last.op, Len(last.xs))
    /\ last.st = "panic" =>
         \E k \in 0..Len(Primitives(last.op, Len(last.xs))) :
           OpsOf(Appended(last.g)) = SubSeq(Primitives(last.op, Len(last.xs)), 1, k)

\* Sum of three operands on a Graph that already holds the result of a call.
C10_Witness ==
  /\ last.op = "Sum"
  /\ last.st = "ok"
  /\ Len(last.xs) = 3
  /\ Len(last.pre[last.g]) > MaxInputs

\* The operands of Node i of Graph g.
Operands(g, i) == {graphs[g][i].args[k] : k \in 1..Len(graphs[g][i].args)}

\* The positions in Graph g of the Nodes that the Nodes at the positions S
\* depend on, through at most n levels of operands.
RECURSIVE Dependencies(_, _, _)
Dependencies(g, S, n) ==
  IF n = 0 THEN S
  ELSE Dependencies(g, S \cup UNION {{a.i : a \in Operands(g, i)} : i \in S}, n - 1)

\* C11: after any sequence of operator calls on a Graph, the composite
\* operators PositiveELU, Sum and Mean included, every operand of every Node
\* is a Node of the same Graph created strictly earlier; hence no Node depends
\* on itself (the Graph is acyclic) and every Node comes after all the Nodes it
\* depends on (creation order is a topological order of the dependencies).
C11_OperandsCreatedEarlier ==
  \A g \in Graphs :
    /\ \A i \in 1..Len(graphs[g]) : \A a \in Operands(g, i) :
         /\ a.g = g
         /\ a.i \in 1..(i - 1)
    /\ \A i \in 1..Len(graphs[g]) :
         LET deps == Dependencies(g, {a.i : a \in Operands(g, i)}, Len(graphs[g]))
         IN  /\ i \notin deps
             /\ \A j \in deps : j < i

\* Mean of several operands, one of them the result of an earlier operator
\* call on the same Graph.
C11_Witness ==
  /\ last.op = "Mean"
  /\ last.st = "ok"
  /\ Len(last.xs) >= 2
  /\ \E k \in 1..Len(last.xs) : NodeAt(last.pre, last.xs[k]).op \notin {"Variable"}

\* ----------------------------------------------- claims (Models, Processors)
Vals(G, refs) == [i \in 1..Len(refs) |-> Val(G, refs[i])]

\* C3: Encode of a stacked embeddings Processor with k words encoders on n
\* words returns n Nodes; the Node at position i is the projection layer
\* applied to the Concat of the position-i encodings of the encoders in
\* encoder order, and with a single encoder to that encoder's position-i
\* encoding itself, no Concat Node being created.
C3_StackedEncode ==
  (last.op = "Encode" /\ procs[last.g].kind = "stackedembeddings") =>
    LET g == last.g
        p == procs[g]
        n == Len(last.xs)
        k == Len(encoders(p))
        E(j, i) == Ref(g, Len(last.pre[g]) + (j - 1) * n + i)
        pl == ProjectionLayer(model)
    IN  /\ last.st = "ok"
        /\ Len(last.out) = n
        /\ \A j \in 1..k, i \in 1..n :
             /\ NodeAt(graphs, E(j, i)).op = "Embed"
             /\ Val(graphs, E(j, i)) = <<RInt(WordsEncoders(model)[j].table[last.xs[i]])>>
        /\ \A i \in 1..n :
             LET y == NodeAt(graphs, last.out[i])
                 c == y.args[1]
             IN  /\ y.op = "Affine"
                 /\ Len(y.args) = 1
                 /\ y.val = AffineVal(pl.w, pl.b, Val(graphs, c))
                 /\ IF k = 1 THEN c = E(1, i)
                    ELSE /\ NodeAt(graphs, c).op = "Concat"
                         /\ NodeAt(graphs, c).args = [j \in 1..k |-> E(j, i)]
                         /\ Val(graphs, c) = [j \in 1..k |-> Val(graphs, E(j, i))[1]]
        /\ k = 1 => \A i \in 1..Len(Appended(g)) : Appended(g)[i].op # "Concat"

\* Two words encoded by two words encoders.
C3_Witness ==
  /\ last.op = "Encode"
  /\ last.st = "ok"
  /\ procs[last.g].kind = "stackedembeddings"
  /\ Len(encoders(procs[last.g])) = 2
  /\ Len(last.xs) = 2
  /\ last.xs[1] # last.xs[2]

\* C4: Classify on n Nodes returns two lists of n Nodes; at each position the
\* start logit is component 0 and the end logit component 1 of one and the
\* same Node, the 2-wide linear projection of that position's input.
C4_ClassifySplits ==
  last.op = "Classify" =>
    LET n == Len(last.xs)
        lin == model.children[7].children[1]
    IN  /\ last.st = "ok"
        /\ Len(last.out) = n
        /\ Len(last.out2) = n
        /\ \A i \in 1..n :
             LET s == NodeAt(graphs, last.out[i])
                 e == NodeAt(graphs, last.out2[i])
                 y == NodeAt(graphs, s.args[1])
             IN  /\ s.op = "AtVec[0]"
                 /\ e.op = "AtVec[1]"
                 /\ e.args = s.args
                 /\ Len(s.args) = 1
                 /\ y.op = "Affine"
                 /\ y.args = <<last.xs[i]>>
                 /\ y.val = AffineVal(lin.w, lin.b, Val(graphs, last.xs[i]))
                 /\ Len(y.val) = 2
                 /\ s.val = <<y.val[1]>>
                 /\ e.val = <<y.val[2]>>

\* Two inputs whose start and end logits differ.
C4_Witness ==
  /\ last.op = "Classify"
  /\ last.st = "ok"
  /\ Len(last.out) = 2
  /\ Val(graphs, last.out[1]) # Val(graphs, last.out2[1])
  /\ Val(graphs, last.out[1]) # Val(graphs, last.out[2])

\* C5: Discriminate returns one integer per encoded element, 0 or 1: 1 where
\* the scalar the stack returned is strictly positive, 0 where it is strictly
\* negative, and always 1 where it is 0 (round(1/2), halves away from zero).
C5_DiscriminateSign ==
  last.op = "Discriminate" =>
    /\ last.st = "ok"
    /\ Len(last.ints) = Len(last.xs)
    /\ Len(last.out) = Len(last.xs)
    /\ \A i \in 1..Len(last.ints) :
         LET x == Val(graphs, last.out[i])[1]
         IN  /\ last.ints[i] \in {0, 1}
             /\ RPos(x) => last.ints[i] = 1
             /\ RNeg(x) => last.ints[i] = 0
             /\ x = RInt(0) => last.ints[i] = 1

\* A scalar of exactly 0 next to a strictly negative one.
C5_Witness ==
  /\ last.op = "Discriminate"
  /\ last.st = "ok"
  /\ \E i, j \in 1..Len(last.out) :
       /\ Val(graphs, last.out[i])[1] = RInt(0)
       /\ RNeg(Val(graphs, last.out[j])[1])

\* C6: Forward on a stacked embeddings Processor or on the BERT Processor
\* panics for every input, none included: it returns no Node and it appends
\* no Node to any Graph.
C6_ForwardPanics ==
  (last.op = "Forward" /\ procs[last.g].kind \in {"stackedembeddings", "bert"}) =>
    /\ last.st = "panic"
    /\ last.out = <<>>
    /\ graphs = last.pre

\* Forward on the inputs the caller bound, on a stacked embeddings Processor.
C6_Witness ==
  /\ last.op = "Forward"
  /\ procs[last.g].kind = "stackedembeddings"
  /\ Len(last.xs) > 0
  /\ last.st = "panic"

\* The Processor p mirrors the Model m: it is of m's kind, built from m, on
\* Graph g in Mode mode, and its children mirror m's children in order.
RECURSIVE Mirrors(_, _, _, _)
Mirrors(p, m, g, mode) ==
  /\ p.kind = m.kind
  /\ p.model = m
  /\ p.graph = g
  /\ p.mode = mode
  /\ Len(p.children) = Len(m.children)
  /\ \A i \in 1..Len(m.children) : Mirrors(p.children[i], m.children[i], g, mode)

\* C7: the Processor tree NewProc returns for a Context mirrors the Model
\* tree: every Processor of it has the Context's Graph and Mode, and its
\* children are the Processors of the Model's children, in the same order.
C7_ProcessorTreeMirrorsModel ==
  \A g \in Graphs :
    /\ pc[g] # "new" => procs[g] # NoProc
    /\ procs[g] # NoProc => Mirrors(procs[g], model, g, Mode(g))

\* Both Contexts have their Processor tree of the BERT Model.
C7_Witness ==
  /\ model.kind = "bert"
  /\ \A g \in Graphs : procs[g].kind = "bert"

\* The stacked embeddings Model has a words encoder whose Processor has no Encode.
BadWordsEncoder(m) ==
  /\ m.kind = "stackedembeddings"
  /\ \E i \in 1..Len(WordsEncoders(m)) : WordsEncoders(m)[i].kind = "linear"

\* C8: NewProc of a stacked embeddings Model one of whose words encoders
\* yields a Processor without Encode ends the process: no Context ever gets
\* a Processor tree, and nothing runs after the fatal call.
C8_BadChildIsFatal ==
  BadWordsEncoder(model) =>
    /\ \A g \in Graphs : procs[g] = NoProc /\ pc[g] = "new" /\ graphs[g] = <<>>
    /\ last.op \in {"none", "NewProc"}
    /\ last.op = "NewProc" => (last.st = "fatal" /\ halted)

\* The fatal call, with the offending words encoder at the second index.
C8_Witness ==
  /\ halted
  /\ last.st = "fatal"
  /\ Len(WordsEncoders(model)) = 2
  /\ WordsEncoders(model)[1].kind = "wordsencoder"
  /\ WordsEncoders(model)[2].kind = "linear"

\* The call c made again on the Graphs G.
Again(G, c) ==
  CASE c.op = "Encode" -> Encode(G, procs[c.g], c.xs)
    [] c.op = "Classify" -> Classify(G, procs[c.g].children[7], c.xs)
    [] c.op = "Discriminate" -> bert_Discriminate(G, procs[c.g], c.xs)

\* C9: a call on the Processor tree of one Context appends Nodes to that
\* Context's Graph only, and the Nodes it appends and returns refer to Nodes
\* of that Graph only; it leaves the other Graph as it was, and the Model as
\* it was when the trees were built from it; and it returns the values the
\* same call returns when the other Graph is empty.
C9_TreesAreIsolated ==
  last.op \in {"Encode", "Classify", "Discriminate"} =>
    LET g == last.g
        alone == Again([h \in Graphs |-> IF h = g THEN last.pre[g] ELSE <<>>], last)
    IN  /\ \A h \in Graphs : procs[h] # NoProc => procs[h].model = model
        /\ \A h \in Graphs \ {g} : graphs[h] = last.pre[h]
        /\ IsPrefix(last.pre[g], graphs[g])
        /\ \A h \in Graphs : \A i \in 1..Len(graphs[h]) :
             \A a \in 1..Len(graphs[h][i].args) : graphs[h][i].args[a].g = h
        /\ \A i \in 1..Len(last.out) : last.out[i].g = g
        /\ \A i \in 1..Len(last.out2) : last.out2[i].g = g
        /\ last.st = alone.st
        /\ Vals(graphs, last.out) = Vals(alone.G, alone.out)
        /\ last.op = "Classify" => Vals(graphs, last.out2) = Vals(alone.G, alone.out2)
        /\ last.op = "Discriminate" => last.ints = alone.ints

\* Both Contexts have encoded the same two words with their own tree of the
\* same Model, and their Graphs hold the same values.
C9_Witness ==
  /\ \A g \in Graphs : pc[g] = "done" /\ Len(graphs[g]) > 0
  /\ last.op = "Encode"
  /\ Len(last.xs) = 2
  /\ \E h \in Graphs \ {last.g} : Len(last.pre[h]) > 0
  /\ [i \in 1..Len(graphs[1]) |-> graphs[1][i].val]
       = [i \in 1..Len(graphs[2]) |-> graphs[2][i].val]

====
